---- MODULE Spec2Model ----
(***************************************************************************)
(* Model of the Feedly developer client (src/src/index.js).                *)
(*                                                                         *)
(* The client is one object whose internal bag (INTERNALS) holds the       *)
(* merged options and the last response.  Every asynchronous function is   *)
(* modelled as a frame: its synchronous part runs inside the action that   *)
(* calls it, and it is resumed by the action that settles the promise it   *)
(* awaits.  JavaScript runs one macrotask at a time and drains all         *)
(* microtasks before the next I/O callback, so the promise reactions that  *)
(* follow the settling of one fetch() or one response.json() run inside    *)
(* the same action, in the order the code chains them.                     *)
(***************************************************************************)
EXTENDS Integers, Sequences, FiniteSets, TLC

VARIABLES
    phase,          \* "new": constructor not run; "ok": instance built; "threw": constructor threw
    ctorArg,        \* the `options` argument the constructor was called with
    options,        \* this[INTERNALS].options
    lastResponse,   \* this[INTERNALS].lastResponse
    frames,         \* activations of request() and refreshAuthToken(), in call order
    net,            \* fetch() calls, in dispatch order
    console         \* console.info / console.error entries, in emission order

vars == <<phase, ctorArg, options, lastResponse, frames, net, console>>

-----------------------------------------------------------------------------
(* Bounds *)

\* Longest baseUrl the constructor is tried with.
MaxLen == 3
\* Number of calls of request / refreshAuthToken made on one instance from
\* outside these two functions (by the user or by the constructor).
MaxCalls == 2
\* Number of fetch calls that may go wrong (no response, a non-2xx status,
\* a body that is not JSON or that carries an error instead of a result).
MaxFaults == 1

-----------------------------------------------------------------------------
(* JavaScript values *)

Null == "<null>"
Undefined == [kind |-> "undefined"]
EmptyObject == [k \in {} |-> ""]

\* !v for the string-or-null values the client tests.
Falsy(v) == v \in {Null, ""}

\* "" + v
Str(v) == IF v = Null THEN "null" ELSE v

Min(a, b) == IF a < b THEN a ELSE b
Max(a, b) == IF a > b THEN a ELSE b

\* String.prototype.substring(start, end): both indices are clamped to
\* [0, length] and swapped when start > end.
Substring(s, start, end) ==
    LET a == Min(Max(start, 0), Len(s))
        b == Min(Max(end, 0), Len(s))
    IN SubSeq(s, Min(a, b) + 1, Max(a, b))

\* String.prototype.substring(start): end defaults to the length.
SubstringFrom(s, start) == Substring(s, start, Len(s))

\* Object.assign(target, source): own keys of source overwrite those of
\* target, one level deep.
ObjectAssign(target, source) ==
    [k \in DOMAIN target \cup DOMAIN source |->
        IF k \in DOMAIN source THEN source[k] ELSE target[k]]

HasKey(obj, k) == k \in DOMAIN obj

-----------------------------------------------------------------------------
(* Constructor inputs *)

TokenPath == "/v3/auth/token"

DefaultOptions ==
    [baseUrl |-> "https://cloud.feedly.com",
     accessToken |-> Null,
     refreshToken |-> Null,
     refreshTokenInstant |-> FALSE]

Chars == {"h", "/"}

RECURSIVE Strings(_)
Strings(n) ==
    IF n = 0 THEN {""}
    ELSE Strings(n - 1) \cup {s \o c : s \in Strings(n - 1), c \in Chars}

\* A key that is either left out or given one of vals.
Field(k, vals) == {EmptyObject} \cup {k :> v : v \in vals}

Configs(baseUrls, accessTokens, refreshTokens, instants) ==
    {a @@ b @@ c @@ d :
        a \in Field("baseUrl", baseUrls),
        b \in Field("accessToken", accessTokens),
        c \in Field("refreshToken", refreshTokens),
        d \in Field("refreshTokenInstant", instants)}

\* Every configuration within the bounds.
AllConfigs == Configs(Strings(MaxLen), {"", "tok0"}, {"", "rt0"}, BOOLEAN)

\* lastResponse: null (index.js 55), in the shape of a response.
NullResponse == [id |-> 0, status |-> 0, headers |-> EmptyObject]

-----------------------------------------------------------------------------
(* Promises, frames and fetch calls *)

Pending == [state |-> "pending"]
Fulfilled(v) == [state |-> "fulfilled", value |-> v]
Rejected(e) == [state |-> "rejected", reason |-> e]

\* The mutable state the functions below transform.
Cur ==
    [options |-> options, lastResponse |-> lastResponse,
     frames |-> frames, net |-> net, console |-> console]

Commit(S) ==
    /\ options' = S.options
    /\ lastResponse' = S.lastResponse
    /\ frames' = S.frames
    /\ net' = S.net
    /\ console' = S.console

\* An activation of an async function: who called it, where it is suspended
\* and the state of the promise it returned.
Frame(fn, url, opts, parent, caller, pc) ==
    [fn |-> fn, url |-> url, opts |-> opts, parent |-> parent,
     caller |-> caller, pc |-> pc, result |-> Pending]

\* JSON.stringify of a flat object given as its <<key, value>> pairs in order.
RECURSIVE JsonMembers(_)
JsonMembers(pairs) ==
    IF pairs = <<>> THEN ""
    ELSE "\"" \o pairs[1][1] \o "\":\"" \o pairs[1][2] \o "\""
         \o (IF Len(pairs) > 1 THEN "," ELSE "")
         \o JsonMembers(Tail(pairs))

JsonStringify(pairs) == "{" \o JsonMembers(pairs) \o "}"

\* fetch(url, init) called by frame r: the call is on the wire.
Fetch(S, url, init, r) ==
    [S EXCEPT !.net = Append(@, [frame |-> r, url |-> url, init |-> init,
                                 state |-> "pending",
                                 response |-> NullResponse,
                                 body |-> EmptyObject])]

\* Variant: the caller's headers are merged into the default headers.
RequestInit_MergeHeaders(accessToken, opts) ==
    LET default == [Authorization |-> "OAuth " \o Str(accessToken)]
        merged == ObjectAssign([headers |-> default], opts)
    IN [merged EXCEPT !.headers = ObjectAssign(default, @)]

\* The init object request() hands to fetch (index.js 115-119).
RequestInit(accessToken, opts) ==
    ObjectAssign(
        [headers |-> [Authorization |-> "OAuth " \o Str(accessToken)]],
        opts)

\* Variant: with no token to send, the call is failed on the spot.
RequestDispatch_SkipWithoutToken(S, r) ==
    LET f == S.frames[r]
        S1 == [S EXCEPT !.frames[r].pc = "await_fetch"]
    IN IF Falsy(S.options.accessToken) /\ f.url # TokenPath
       THEN [S EXCEPT !.frames[r].pc = "settled",
                      !.frames[r].result = Fulfilled(Undefined)]
       ELSE Fetch(S1, S.options.baseUrl \o f.url,
                  RequestInit(S.options.accessToken, f.opts), r)

\* request(): the fetch dispatch, reached directly or after the awaited
\* refresh (index.js 115).
RequestDispatch(S, r) ==
    LET f == S.frames[r]
        S1 == [S EXCEPT !.frames[r].pc = "await_fetch"]
    IN Fetch(S1, S.options.baseUrl \o f.url,
             RequestInit(S.options.accessToken, f.opts), r)

\* Variant: no headers are passed, so the default ones are sent.
RefreshOptions_NoHeaders(S) ==
    [method |-> "POST",
     body |-> JsonStringify(<< <<"refresh_token", Str(S.options.refreshToken)>>,
                               <<"client_id", "feedlydev">>,
                               <<"client_secret", "feedlydev">>,
                               <<"grant_type", "refresh_token">> >>)]

\* The options refreshAuthToken() passes to request() (index.js 198-207).
RefreshOptions(S) ==
    [method |-> "POST",
     headers |-> EmptyObject,
     body |-> JsonStringify(<< <<"refresh_token", Str(S.options.refreshToken)>>,
                               <<"client_id", "feedlydev">>,
                               <<"client_secret", "feedlydev">>,
                               <<"grant_type", "refresh_token">> >>)]

RECURSIVE Request(_, _, _, _, _)

\* refreshAuthToken() up to its suspension: it calls request() on the token
\* path and chains its reactions on the returned promise.
RefreshAuthToken(S, parent, caller) ==
    LET f == Len(S.frames) + 1
        S1 == [S EXCEPT !.frames =
                  Append(@, Frame("refreshAuthToken", "", EmptyObject,
                                  parent, caller, "await_request"))]
    IN Request(S1, TokenPath, RefreshOptions(S1), f, "refreshAuthToken")

\* Variant: the request() of a refreshAuthToken() refreshes too when no token
\* is held (one level deep).
Request_RefreshOnTokenPath(S, url, opts, parent, caller) ==
    LET r == Len(S.frames) + 1
        S1 == [S EXCEPT !.frames =
                  Append(@, Frame("request", url, opts, parent, caller,
                                  "start"))]
        nested == /\ caller = "refreshAuthToken"
                  /\ \/ S.frames[parent].parent = 0
                     \/ S.frames[S.frames[parent].parent].caller = "user"
    IN IF Falsy(S.options.accessToken) /\ (url # TokenPath \/ nested)
       THEN RefreshAuthToken([S1 EXCEPT !.frames[r].pc = "await_refresh"],
                             r, "request")
       ELSE RequestDispatch(S1, r)

\* Variant: a refresh is attempted once; later calls go out as they are.
Request_NoRetry(S, url, opts, parent, caller) ==
    LET r == Len(S.frames) + 1
        S1 == [S EXCEPT !.frames =
                  Append(@, Frame("request", url, opts, parent, caller,
                                  "start"))]
    IN IF /\ Falsy(S.options.accessToken) /\ url # TokenPath
          /\ ~\E f \in DOMAIN S.frames :
                 S.frames[f].fn = "refreshAuthToken" /\ S.frames[f].parent # 0
       THEN RefreshAuthToken([S1 EXCEPT !.frames[r].pc = "await_refresh"],
                             r, "request")
       ELSE RequestDispatch(S1, r)

\* Variant: every call to a path other than the token path refreshes first.
Request_AlwaysRefresh(S, url, opts, parent, caller) ==
    LET r == Len(S.frames) + 1
        S1 == [S EXCEPT !.frames =
                  Append(@, Frame("request", url, opts, parent, caller,
                                  "start"))]
    IN IF url # TokenPath
       THEN RefreshAuthToken([S1 EXCEPT !.frames[r].pc = "await_refresh"],
                             r, "request")
       ELSE RequestDispatch(S1, r)

\* request(url, options) up to its first suspension (index.js 110-115).
Request(S, url, opts, parent, caller) ==
    LET r == Len(S.frames) + 1
        S1 == [S EXCEPT !.frames =
                  Append(@, Frame("request", url, opts, parent, caller,
                                  "start"))]
    IN IF Falsy(S.options.accessToken) /\ url # TokenPath
       THEN RefreshAuthToken([S1 EXCEPT !.frames[r].pc = "await_refresh"],
                             r, "request")
       ELSE RequestDispatch(S1, r)

-----------------------------------------------------------------------------
(* Promise reactions *)

FetchError == "FetchError: request failed"
JsonError == "FetchError: invalid json response body"
DestructureError == "TypeError: Cannot destructure property 'response' of undefined"
LengthError == "TypeError: Cannot read property 'length' of undefined"

ConsoleEntry(level, msg, args) == [level |-> level, msg |-> msg, args |-> args]

\* Variant: the handler logs and throws the error on.
CatchError_Rethrow(S, prefix, error) ==
    [S |-> [S EXCEPT !.console =
                Append(@, [level |-> "error", msg |-> prefix \o ": " \o error,
                           args |-> <<>>])],
     outcome |-> [state |-> "rejected", reason |-> error]]

\* The handler Feedly.catchError(prefix) builds, applied to error: it logs
\* and returns nothing, so the promise chained on it is fulfilled with
\* undefined (index.js 258-262).
CatchError(S, prefix, error) ==
    [S |-> [S EXCEPT !.console =
                Append(@, ConsoleEntry("error", prefix \o ": " \o error, <<>>))],
     outcome |-> Fulfilled(Undefined)]

\* Variant: the body is logged as it was received.
LogAuthBody_Unredacted(S, body) ==
    IF ~HasKey(body, "access_token")
    THEN [S |-> S, outcome |-> Rejected(LengthError)]
    ELSE [S |-> [S EXCEPT !.console =
                     Append(@, ConsoleEntry("info",
                                "Refresh of tokens was successful: %o",
                                <<body>>))],
          outcome |-> Fulfilled(Undefined)]

\* Feedly.logAuthBody(body) (index.js 243-248): reading .length of a missing
\* access_token throws before anything is logged.
LogAuthBody(S, body) ==
    IF ~HasKey(body, "access_token")
    THEN [S |-> S, outcome |-> Rejected(LengthError)]
    ELSE LET bodyCopy ==
                 [body EXCEPT !.access_token =
                     "String[" \o ToString(Len(body.access_token)) \o "]"]
         IN [S |-> [S EXCEPT !.console =
                        Append(@, ConsoleEntry("info",
                                   "Refresh of tokens was successful: %o",
                                   <<bodyCopy>>))],
             outcome |-> Fulfilled(Undefined)]

\* Variant: the callback stores whatever access_token the body has, then
\* logs.
RefreshThen_StoreBeforeLog(S, value) ==
    IF value = Undefined
    THEN [S |-> S, outcome |-> Rejected(DestructureError)]
    ELSE LET stored == [S EXCEPT !.options.accessToken =
                           IF HasKey(value.body, "access_token")
                           THEN value.body.access_token ELSE Null]
         IN LogAuthBody(stored, value.body)

\* Variant: the callback logs the body and forgets to store the token.
RefreshThen_NoStore(S, value) ==
    IF value = Undefined
    THEN [S |-> S, outcome |-> Rejected(DestructureError)]
    ELSE LogAuthBody(S, value.body)

\* Variant: the callback stores the token only when none is held.
RefreshThen_KeepFirst(S, value) ==
    IF value = Undefined
    THEN [S |-> S, outcome |-> Rejected(DestructureError)]
    ELSE LET logged == LogAuthBody(S, value.body)
         IN IF logged.outcome.state = "rejected" \/ ~Falsy(S.options.accessToken)
            THEN logged
            ELSE [S |-> [logged.S EXCEPT !.options.accessToken =
                                             value.body.access_token],
                  outcome |-> Fulfilled(Undefined)]

\* The .then callback of refreshAuthToken (index.js 208-212), applied to the
\* value request() was fulfilled with.
RefreshThen(S, value) ==
    IF value = Undefined
    THEN [S |-> S, outcome |-> Rejected(DestructureError)]
    ELSE LET logged == LogAuthBody(S, value.body)
         IN IF logged.outcome.state = "rejected"
            THEN logged
            ELSE [S |-> [logged.S EXCEPT !.options.accessToken =
                                             value.body.access_token],
                  outcome |-> Fulfilled(Undefined)]

\* The chain .then(callback).catch(catchError(...)) of refreshAuthToken
\* (index.js 208-212), run on the settled promise of its request().
RefreshReactions(S, settled) ==
    LET afterThen ==
            IF settled.state = "fulfilled"
            THEN RefreshThen(S, settled.value)
            ELSE [S |-> S, outcome |-> settled]
    IN IF afterThen.outcome.state = "rejected"
       THEN CatchError(afterThen.S, "Failed to refresh token",
                       afterThen.outcome.reason)
       ELSE afterThen

RECURSIVE Settle(_, _, _)

\* The promise of frame i settles; whoever awaits it runs on.
Settle(S, i, outcome) ==
    LET S1 == [S EXCEPT !.frames[i].pc = "settled",
                        !.frames[i].result = outcome]
        p == S.frames[i].parent
    IN IF p = 0 THEN S1
       ELSE IF S.frames[p].fn = "refreshAuthToken"
       THEN LET R == RefreshReactions(S1, outcome)
            IN Settle(R.S, p, R.outcome)
       ELSE \* request() resumes after `await this.refreshAuthToken()`
            IF outcome.state = "rejected"
            THEN Settle(S1, p, outcome)
            ELSE RequestDispatch(S1, p)

\* The .catch(catchError(...)) that ends the chain of request()
\* (index.js 125-127), run on a rejection of fetch or of the body parse.
RequestCatch(S, r, error) ==
    LET C == CatchError(S, "Failed to make call to " \o S.frames[r].url, error)
    IN Settle(C.S, r, C.outcome)

\* Feedly.returnResponse's inner callback (index.js 138-143).
FeedlyResponse(response, body) == [response |-> response, body |-> body]

-----------------------------------------------------------------------------
(* Rate limit *)

\* Headers.get(name): null when the header is missing.
HeadersGet(headers, name) == IF HasKey(headers, name) THEN headers[name] ELSE Null

NaN == [nan |-> TRUE, n |-> 0]
Number(n) == [nan |-> FALSE, n |-> n]

IsDigit(c) == \E d \in 0..9 : ToString(d) = c

DigitValue(c) == CHOOSE d \in 0..9 : ToString(d) = c

\* The value of the longest prefix of str made of digits, continuing acc.
RECURSIVE ParseDigits(_, _)
ParseDigits(str, acc) ==
    IF Len(str) = 0 \/ ~IsDigit(SubSeq(str, 1, 1))
    THEN acc
    ELSE ParseDigits(SubSeq(str, 2, Len(str)),
                     10 * acc + DigitValue(SubSeq(str, 1, 1)))

\* parseInt(v, 10): v is turned into a string, an optional sign and the
\* digits that follow are read, anything after them is ignored; NaN when
\* there is no digit to read.
ParseInt(v) ==
    LET str == Str(v)
        signed == Len(str) > 0 /\ SubSeq(str, 1, 1) \in {"-", "+"}
        rest == IF signed THEN SubSeq(str, 2, Len(str)) ELSE str
    IN IF Len(rest) = 0 \/ ~IsDigit(SubSeq(rest, 1, 1))
       THEN NaN
       ELSE IF signed /\ SubSeq(str, 1, 1) = "-"
            THEN Number(0 - ParseDigits(rest, 0))
            ELSE Number(ParseDigits(rest, 0))

\* Variant: the two headers are read into each other's field.
Ratelimit_Swapped(last) ==
    IF last = NullResponse
    THEN [threw |-> TRUE,
          error |-> "Error: Cannot get rate limits: There was no response yet"]
    ELSE [threw |-> FALSE,
          count |-> ParseInt(HeadersGet(last.headers, "X-Ratelimit-Reset")),
          reset |-> ParseInt(HeadersGet(last.headers, "X-Ratelimit-Count"))]

\* Variant: without a response the getter answers zeros.
Ratelimit_Default(last) ==
    IF last = NullResponse
    THEN [threw |-> FALSE, count |-> Number(0), reset |-> Number(0)]
    ELSE [threw |-> FALSE,
          count |-> ParseInt(HeadersGet(last.headers, "X-Ratelimit-Count")),
          reset |-> ParseInt(HeadersGet(last.headers, "X-Ratelimit-Reset"))]

\* get ratelimit() (index.js 221-234), read while the last response is last.
Ratelimit(last) ==
    IF last = NullResponse
    THEN [threw |-> TRUE,
          error |-> "Error: Cannot get rate limits: There was no response yet"]
    ELSE [threw |-> FALSE,
          count |-> ParseInt(HeadersGet(last.headers, "X-Ratelimit-Count")),
          reset |-> ParseInt(HeadersGet(last.headers, "X-Ratelimit-Reset"))]

-----------------------------------------------------------------------------
(* Constructor *)

\* index.js 58-61.
TrimTrailingSlash(baseUrl) ==
    IF SubstringFrom(baseUrl, -1) = "/"
    THEN Substring(baseUrl, 0, -1)
    ELSE baseUrl

\* Variant: an access token alone is accepted as credentials.
RefreshTokenMissing_UnlessAccessToken(opts) ==
    Falsy(opts.refreshToken) /\ Falsy(opts.accessToken)

\* index.js 63.
RefreshTokenMissing(opts) == Falsy(opts.refreshToken)

\* new Feedly(o) (index.js 44-70).
Construct(o) ==
    /\ phase = "new"
    /\ ctorArg' = o
    /\ LET merged == ObjectAssign(DefaultOptions, o)
           S0 == [Cur EXCEPT !.options =
                                 [merged EXCEPT !.baseUrl = TrimTrailingSlash(@)],
                             !.lastResponse = NullResponse]
       IN IF RefreshTokenMissing(S0.options)
          THEN /\ phase' = "threw"
               /\ Commit(S0)
          ELSE /\ phase' = "ok"
               /\ IF S0.options.refreshTokenInstant
                  THEN Commit(RefreshAuthToken(S0, 0, "constructor"))
                  ELSE Commit(S0)

Init ==
    /\ phase = "new"
    /\ ctorArg = EmptyObject
    /\ options = EmptyObject
    /\ lastResponse = NullResponse
    /\ frames = <<>>
    /\ net = <<>>
    /\ console = <<>>

\* Construction alone, over every configuration within the bounds.
NextCtor == \E o \in AllConfigs : Construct(o)

SpecCtor == Init /\ [][NextCtor]_vars

-----------------------------------------------------------------------------
(* Calls and I/O completions *)

Paths == {"/v3/profile", TokenPath}

\* The options a caller passes to request().
CallerOptions == {EmptyObject}

\* Options that carry headers of the caller's own.
HeaderOptions ==
    {EmptyObject,
     [headers |-> EmptyObject],
     [headers |-> [Accept |-> "application/json"]],
     [headers |-> [Authorization |-> "Basic dXNlcg=="]]}

Statuses == {200, 401}

\* The headers of the answer to fetch call h: the server reports the quota
\* on the calls it accepts and leaves the two headers out when it rejects.
ResponseHeaders(h, status) ==
    IF status = 200
    THEN ("X-Ratelimit-Count" :> ToString(h)) @@
         ("X-Ratelimit-Reset" :> ToString(1700 + h))
    ELSE EmptyObject

\* The token the server issues in answer to fetch call h: every exchange
\* yields a new one.
IssuedToken(h) == "tok" \o ToString(h)

\* Parsed JSON bodies the server may send in answer to fetch call h.  Only
\* the body of a token exchange is ever inspected by the client.
ErrorBody == [errorCode |-> "401"]

Bodies(h) ==
    IF net[h].url = options.baseUrl \o TokenPath
    THEN {[access_token |-> IssuedToken(h), plan |-> "pro"], ErrorBody}
    ELSE {[id |-> "user"], ErrorBody}

\* The fetch calls that went wrong so far.
FaultyCalls ==
    {h \in DOMAIN net :
        \/ net[h].state \in {"failed", "unparsable"}
        \/ net[h].state \in {"response", "parsed"} /\ net[h].response.status # 200
        \/ net[h].state = "parsed" /\ net[h].body = ErrorBody}

\* Call h may go wrong: it already did, or the fault budget is not used up.
MayFail(h) == h \in FaultyCalls \/ Cardinality(FaultyCalls) < MaxFaults

\* Calls made from outside request / refreshAuthToken.
OuterCalls == {i \in DOMAIN frames : frames[i].parent = 0}

\* Those whose promise is still pending.
InFlight == {i \in OuterCalls : frames[i].pc # "settled"}

CanCall ==
    /\ phase = "ok"
    /\ Cardinality(OuterCalls) < MaxCalls

\* The user calls request(url, opts).
CallRequest(url, opts) ==
    /\ CanCall
    /\ Commit(Request(Cur, url, opts, 0, "user"))
    /\ UNCHANGED <<phase, ctorArg>>

\* The user calls refreshAuthToken().
CallRefreshAuthToken ==
    /\ CanCall
    /\ Commit(RefreshAuthToken(Cur, 0, "user"))
    /\ UNCHANGED <<phase, ctorArg>>

\* Variant: only a response with status 200 is recorded.
FetchFulfilled_RecordOk(h, status) ==
    /\ net[h].state = "pending"
    /\ status # 200 => MayFail(h)
    /\ LET response == [id |-> h, status |-> status,
                        headers |-> ResponseHeaders(h, status)]
           r == net[h].frame
       IN Commit([Cur EXCEPT !.lastResponse =
                                 IF status = 200 THEN response ELSE @,
                             !.net[h].state = "response",
                             !.net[h].response = response,
                             !.frames[r].pc = "await_json"])
    /\ UNCHANGED <<phase, ctorArg>>

\* fetch call h is answered: the first .then of request() records the
\* response and returnResponse starts response.json() (index.js 119-124, 138).
FetchFulfilled(h, status) ==
    /\ net[h].state = "pending"
    /\ status # 200 => MayFail(h)
    /\ LET response == [id |-> h, status |-> status,
                        headers |-> ResponseHeaders(h, status)]
           r == net[h].frame
       IN Commit([Cur EXCEPT !.lastResponse = response,
                             !.net[h].state = "response",
                             !.net[h].response = response,
                             !.frames[r].pc = "await_json"])
    /\ UNCHANGED <<phase, ctorArg>>

\* fetch call h fails before any response (index.js 125-127).
FetchRejected(h) ==
    /\ net[h].state = "pending"
    /\ MayFail(h)
    /\ Commit(RequestCatch([Cur EXCEPT !.net[h].state = "failed"],
                           net[h].frame, FetchError))
    /\ UNCHANGED <<phase, ctorArg>>

\* response.json() of call h yields body (index.js 138-143).
JsonFulfilled(h, body) ==
    /\ net[h].state = "response"
    /\ body = ErrorBody => MayFail(h)
    /\ Commit(Settle([Cur EXCEPT !.net[h].state = "parsed",
                                  !.net[h].body = body], net[h].frame,
                     Fulfilled(FeedlyResponse(net[h].response, body))))
    /\ UNCHANGED <<phase, ctorArg>>

\* response.json() of call h fails: the body is not JSON (index.js 125-127).
JsonRejected(h) ==
    /\ net[h].state = "response"
    /\ MayFail(h)
    /\ Commit(RequestCatch([Cur EXCEPT !.net[h].state = "unparsable"],
                           net[h].frame, JsonError))
    /\ UNCHANGED <<phase, ctorArg>>

\* The configurations the instance under call is built from.
RunConfigs == Configs({}, {"tok0"}, {"rt0"}, {TRUE})

Next ==
    \/ \E o \in RunConfigs : Construct(o)
    \/ \E url \in Paths, opts \in CallerOptions : CallRequest(url, opts)
    \/ CallRefreshAuthToken
    \/ \E h \in DOMAIN net, status \in Statuses : FetchFulfilled(h, status)
    \/ \E h \in DOMAIN net : FetchRejected(h)
    \/ \E h \in DOMAIN net : \E body \in Bodies(h) : JsonFulfilled(h, body)
    \/ \E h \in DOMAIN net : JsonRejected(h)

Spec == Init /\ [][Next]_vars

\* The same instance, called with headers of the caller's own; the server
\* answers 200 with a result body, or the network fails.
NextOptions ==
    \/ \E o \in RunConfigs : Construct(o)
    \/ \E url \in Paths, opts \in HeaderOptions : CallRequest(url, opts)
    \/ \E h \in DOMAIN net : FetchFulfilled(h, 200)
    \/ \E h \in DOMAIN net : FetchRejected(h)
    \/ \E h \in DOMAIN net : \E body \in Bodies(h) \ {ErrorBody} : JsonFulfilled(h, body)

SpecOptions == Init /\ [][NextOptions]_vars

-----------------------------------------------------------------------------
(* Construction claims, checked under SpecCtor *)

Supplied(k) == ObjectAssign(DefaultOptions, ctorArg)[k]

EndsWithSlash(str) == Len(str) > 0 /\ SubSeq(str, Len(str), Len(str)) = "/"

C8_AccessTokenOnlyConstructs ==
    (phase # "new" /\ DOMAIN ctorArg = {"accessToken"} /\ ctorArg.accessToken = "tok0")
        => phase = "ok"

\* C9: the stored base URL is the supplied one with exactly one trailing
\* slash removed, and the supplied one when it does not end in a slash.
C9_TrailingSlashTrimmedOnce ==
    phase # "new" =>
        LET supplied == Supplied("baseUrl")
        IN options.baseUrl =
              IF EndsWithSlash(supplied)
              THEN SubSeq(supplied, 1, Len(supplied) - 1)
              ELSE supplied

-----------------------------------------------------------------------------
(* Token refresh claims, checked under Spec *)

\* The fetch calls request frame i made.
OwnCalls(F, N, i) == {h \in DOMAIN N : N[h].frame = i}

\* The token exchanges: fetch calls made by the request() of a
\* refreshAuthToken().
Exchanges(F, N) == {h \in DOMAIN N : F[N[h].frame].caller = "refreshAuthToken"}

\* The token exchanges made on behalf of call i: by i itself when it is a
\* refreshAuthToken(), by the refreshAuthToken() it awaits when it is a request().
ExchangesOf(F, N, i) ==
    {h \in Exchanges(F, N) :
        LET f == F[N[h].frame].parent
        IN f = i \/ F[f].parent = i}

Done(call) == call.state \in {"failed", "parsed", "unparsable"}

ReturnedToken(call) == call.state = "parsed" /\ HasKey(call.body, "access_token")

NewCalls == DOMAIN net' \ DOMAIN net

NewFrames == DOMAIN frames' \ DOMAIN frames

\* A request() to a path other than the token path.
EndpointRequest(frame) == frame.fn = "request" /\ frame.url # TokenPath

\* A request() that waited for a refresh never has two exchanges, and its
\* own fetch call exists only once that exchange is over.
C1_RefreshBeforeDispatch ==
    \A r \in DOMAIN frames :
        (EndpointRequest(frames[r]) /\ frames[r].pc # "await_refresh"
            /\ ExchangesOf(frames, net, r) # {})
        => /\ Cardinality(ExchangesOf(frames, net, r)) = 1
           /\ \A x \in ExchangesOf(frames, net, r), h \in OwnCalls(frames, net, r) :
                  Done(net[x]) /\ x < h

\* A request() made with no token held and nothing else in flight starts one
\* exchange and no other fetch call.
C1_CallStep ==
    \A r \in NewFrames :
        (EndpointRequest(frames'[r]) /\ frames'[r].parent = 0
            /\ Falsy(options.accessToken) /\ InFlight = {})
        => /\ frames'[r].pc = "await_refresh"
           /\ Cardinality(NewCalls) = 1
           /\ NewCalls = ExchangesOf(frames', net', r)

\* When its exchange is over and nothing else is in flight, the request()
\* makes its own fetch call, with the token the exchange returned.
C1_ResumeStep ==
    \A r \in DOMAIN frames :
        (frames[r].pc = "await_refresh" /\ frames'[r].pc # "await_refresh"
            /\ InFlight = {r})
        => /\ Cardinality(NewCalls) = 1
           /\ \A n \in NewCalls :
                /\ net'[n].frame = r
                /\ net'[n].url = options.baseUrl \o frames[r].url
                /\ \A x \in ExchangesOf(frames', net', r) :
                      ReturnedToken(net'[x]) =>
                          net'[n].init.headers =
                              [Authorization |-> "OAuth " \o net'[x].body.access_token]

\* C1: with no access token held, a single request() to a non-token path
\* (nothing else in flight) issues exactly one token exchange, dispatches the
\* endpoint call only after that exchange has completed, and sends it with
\* Authorization: OAuth <token the exchange returned>.
C1_SingleRefreshThenCall ==
    []C1_RefreshBeforeDispatch /\ [][C1_CallStep /\ C1_ResumeStep]_vars

C1_Witness ==
    /\ Cardinality(OuterCalls) = 1
    /\ \E r \in OuterCalls :
        /\ EndpointRequest(frames[r]) /\ frames[r].caller = "user"
        /\ Len(net) = 2
        /\ ExchangesOf(frames, net, r) = {1}
        /\ ReturnedToken(net[1])
        /\ net[2].frame = r
        /\ net[2].init.headers = [Authorization |-> "OAuth " \o IssuedToken(1)]

\* The Authorization values of calls the server answered with 401, for
\* calls that carried a token.
RejectedAuth ==
    {net[h].init.headers.Authorization :
        h \in {c \in DOMAIN net :
                /\ net[c].response.status = 401
                /\ HasKey(net[c].init.headers, "Authorization")
                /\ net[c].init.headers.Authorization \notin
                       {"OAuth " \o Str(Null), "OAuth "}}}

\* C2: once the server has rejected the held access token, no later call is
\* sent with that token: the client exchanges the refresh token for a new
\* access token first.
C2_ExpiredTokenReplaced ==
    [][\A n \in NewCalls :
          (EndpointRequest(frames'[net'[n].frame])
              /\ HasKey(net'[n].init.headers, "Authorization"))
          => net'[n].init.headers.Authorization \notin RejectedAuth]_vars

\* C3: at most one token exchange is in flight at any moment.
C3_SingleRefreshInFlight ==
    Cardinality({h \in Exchanges(frames, net) : ~Done(net[h])}) <= 1

\* Every refreshAuthToken() has its own exchange, and a request() awaits at
\* most one refreshAuthToken().
C4_OneExchangePerRefresh ==
    /\ \A f \in DOMAIN frames :
          frames[f].fn = "refreshAuthToken" =>
              Cardinality({h \in Exchanges(frames, net) :
                              frames[net[h].frame].parent = f}) = 1
    /\ \A r \in DOMAIN frames :
          Cardinality({f \in DOMAIN frames :
                          frames[f].fn = "refreshAuthToken"
                          /\ frames[f].parent = r}) <= 1

\* A request() made with no token held while exchanges are in flight starts
\* an exchange of its own.
C4_CallStep ==
    \A r \in NewFrames :
        (EndpointRequest(frames'[r]) /\ frames'[r].parent = 0
            /\ Falsy(options.accessToken)
            /\ \E x \in Exchanges(frames, net) : ~Done(net[x]))
        => /\ Cardinality(NewCalls) = 1
           /\ NewCalls = ExchangesOf(frames', net', r)
           /\ NewCalls \cap DOMAIN net = {}

\* An exchange that completes with a token stores it, whatever an exchange
\* that completed earlier has stored.
C4_CompleteStep ==
    \A x \in Exchanges(frames, net) :
        (~Done(net[x]) /\ ReturnedToken(net'[x]))
        => options'.accessToken = net'[x].body.access_token

\* C4: request() calls made concurrently with no access token held each
\* issue a token exchange of their own (no deduplication), and each exchange
\* that returns a token overwrites the stored one, so that the token stored
\* once all have settled is that of the exchange that completed last.
C4_RacingRefreshesLastWins ==
    []C4_OneExchangePerRefresh /\ [][C4_CallStep /\ C4_CompleteStep]_vars

\* Two racing request() calls, both exchanges returned a token, and the one
\* issued first completed last: its token is the stored one.
C4_Witness ==
    /\ InFlight = {}
    /\ \E r1, r2 \in OuterCalls :
        /\ r1 < r2
        /\ EndpointRequest(frames[r1]) /\ EndpointRequest(frames[r2])
        /\ \E x1 \in ExchangesOf(frames, net, r1), x2 \in ExchangesOf(frames, net, r2) :
              /\ ReturnedToken(net[x1]) /\ ReturnedToken(net[x2])
              /\ options.accessToken = net[x1].body.access_token
              /\ \A h \in OwnCalls(frames, net, r2) :
                    net[h].init.headers = [Authorization |-> "OAuth " \o IssuedToken(x2)]

-----------------------------------------------------------------------------
(* Failure handling claims, checked under Spec *)

\* The fetch of the call failed or its body did not parse.
CallFailed(call) == call.state \in {"failed", "unparsable"}

FailedRequests(url) ==
    {i \in DOMAIN frames :
        /\ frames[i].fn = "request" /\ frames[i].url = url
        /\ \E h \in OwnCalls(frames, net, i) : CallFailed(net[h])}

\* The console.error entries request() writes for path url.
RequestErrors(url) ==
    {k \in DOMAIN console :
        /\ console[k].level = "error"
        /\ \E e \in {FetchError, JsonError} :
              console[k].msg = "Failed to make call to " \o url \o ": " \o e}

\* C5: a request() whose fetch or body parse fails is fulfilled with no
\* value and never rejected; it is fulfilled with no value only then, and one
\* error entry prefixed with its path is logged exactly for each such failure.
C5_FailureResolvesUndefinedAndLogs ==
    /\ \A i \in DOMAIN frames :
          frames[i].fn = "request" =>
              /\ frames[i].result.state # "rejected"
              /\ frames[i].pc = "settled" =>
                    /\ frames[i].result.state = "fulfilled"
                    /\ (frames[i].result.value = Undefined) <=> (i \in FailedRequests(frames[i].url))
              /\ i \in FailedRequests(frames[i].url) => frames[i].pc = "settled"
    /\ \A url \in Paths :
          Cardinality(RequestErrors(url)) = Cardinality(FailedRequests(url))

C5_Witness ==
    \E i \in OuterCalls :
        /\ EndpointRequest(frames[i])
        /\ frames[i].result = Fulfilled(Undefined)
        /\ \E h \in OwnCalls(frames, net, i) : net[h].state = "unparsable"
        /\ Cardinality(RequestErrors(frames[i].url)) = 1

\* The exchange of a refreshAuthToken() failed: no response, a response that
\* is not 2xx, a body that is not JSON or one without access_token.
ExchangeFailed(call) ==
    \/ CallFailed(call)
    \/ call.response.status # 200
    \/ ~HasKey(call.body, "access_token")

\* C6: a refreshAuthToken() that fails - no response, a non-2xx response, a
\* body that is not JSON or that carries no access_token - is fulfilled all
\* the same, logs a failure entry and leaves the stored access token as it was.
C6_FailedRefreshKeepsToken ==
    [][\A f \in DOMAIN frames :
          (frames[f].fn = "refreshAuthToken"
              /\ frames[f].pc # "settled" /\ frames'[f].pc = "settled"
              /\ \E x \in ExchangesOf(frames', net', f) : ExchangeFailed(net'[x]))
          => /\ frames'[f].result.state = "fulfilled"
             /\ options'.accessToken = options.accessToken
             /\ \E k \in DOMAIN console' \ DOMAIN console :
                   console'[k].level = "error"]_vars

-----------------------------------------------------------------------------
(* Header claims, checked under SpecOptions *)

CallerHeaders(frame) ==
    IF HasKey(frame.opts, "headers") THEN frame.opts.headers ELSE EmptyObject

\* The default headers request() builds in the step that dispatches.
DefaultHeaders == [Authorization |-> "OAuth " \o Str(options'.accessToken)]

\* C10: the headers sent are the default Authorization header merged with
\* the caller's headers, entry by entry: the caller's entries are added to
\* it and only a caller's Authorization entry replaces it.
C10_HeadersMergedByEntry ==
    [][\A n \in NewCalls :
          net'[n].init.headers =
              ObjectAssign(DefaultHeaders, CallerHeaders(frames'[net'[n].frame]))]_vars

\* C10 as amended: the caller's headers object, when one is supplied,
\* replaces the default headers as a whole, so the Authorization header is
\* sent only when the caller supplies no headers or names it itself.
C10_HeadersReplacedWhole ==
    [][\A n \in NewCalls :
          LET frame == frames'[net'[n].frame]
          IN net'[n].init.headers =
                IF HasKey(frame.opts, "headers")
                THEN frame.opts.headers
                ELSE DefaultHeaders]_vars

C10_Witness ==
    \E h \in DOMAIN net :
        /\ frames[net[h].frame].caller = "user"
        /\ frames[net[h].frame].opts = [headers |-> [Accept |-> "application/json"]]
        /\ ~Falsy(options.accessToken)
        /\ net[h].init.headers = [Accept |-> "application/json"]

-----------------------------------------------------------------------------
(* Last response and rate limit claims, checked under Spec *)

\* The fetch call has been answered (its body may still be on its way).
Answered(call) == call.state \in {"response", "parsed", "unparsable"}

\* The request() of frame i is fulfilled with {response, body} in this step.
ResolvesWithValue(i) ==
    /\ frames[i].fn = "request"
    /\ frames[i].pc # "settled" /\ frames'[i].pc = "settled"
    /\ frames'[i].result.state = "fulfilled"
    /\ frames'[i].result.value # Undefined

\* What ratelimit answers for the headers the server sent with call h.
ExpectedRatelimit(h) ==
    IF net[h].response.status = 200
    THEN [threw |-> FALSE, count |-> Number(h), reset |-> Number(1700 + h)]
    ELSE [threw |-> FALSE, count |-> NaN, reset |-> NaN]

\* C11: whenever a request() is fulfilled with {response, body}, whatever
\* else is in flight, lastResponse is the response of that call and ratelimit
\* is count and reset parsed from its headers.
C11_LastResponseIsOwnAtResolve ==
    [][\A i \in DOMAIN frames :
          ResolvesWithValue(i) =>
              /\ lastResponse' = frames'[i].result.value.response
              /\ \A h \in OwnCalls(frames', net', i) :
                    Ratelimit(lastResponse') = ExpectedRatelimit(h)']_vars

\* The value a request() is fulfilled with carries the response of its own
\* fetch call, and ratelimit read on a response is its two headers in base 10.
C11_ResultCarriesOwnResponse ==
    /\ \A i \in DOMAIN frames :
          (frames[i].fn = "request" /\ frames[i].result.state = "fulfilled"
              /\ frames[i].result.value # Undefined)
          => \A h \in OwnCalls(frames, net, i) :
                frames[i].result.value.response = net[h].response
    /\ \A h \in DOMAIN net :
          Answered(net[h]) => Ratelimit(net[h].response) = ExpectedRatelimit(h)

\* The response of a call becomes lastResponse when it arrives, and stays
\* lastResponse up to and including the resolution of the call unless the
\* response of another call arrives.
C11_OwnUntilOtherArrives ==
    \A h \in DOMAIN net :
        /\ (net[h].state = "pending" /\ Answered(net'[h]))
              => lastResponse' = net'[h].response
        /\ (net[h].state = "response" /\ lastResponse = net[h].response)
              => \/ lastResponse' = net[h].response
                 \/ \E c \in DOMAIN net \ {h} :
                       /\ net[c].state = "pending" /\ Answered(net'[c])
                       /\ lastResponse' = net'[c].response

\* C11 as amended: a request() is fulfilled with its own response, which is
\* lastResponse at that moment unless the response of another call has
\* arrived since; ratelimit is count and reset of lastResponse in base 10.
C11_LastResponseIsOwnUnlessOvertaken ==
    []C11_ResultCarriesOwnResponse /\ [][C11_OwnUntilOtherArrives]_vars

\* A request() fulfilled with the response that is lastResponse while another
\* call is still unanswered.
C11_Witness ==
    \E i \in DOMAIN frames :
        /\ frames[i].fn = "request" /\ frames[i].result.state = "fulfilled"
        /\ frames[i].result.value # Undefined
        /\ lastResponse = frames[i].result.value.response
        /\ Ratelimit(lastResponse) =
              [threw |-> FALSE, count |-> Number(lastResponse.id),
               reset |-> Number(1700 + lastResponse.id)]
        /\ \E c \in DOMAIN net : net[c].state = "pending"

\* C12: reading ratelimit throws exactly in the states where no response has
\* ever been recorded - before any call, and after calls that all failed
\* before a response - and yields a value, never a default, otherwise.
C12_RatelimitThrowsIffNoResponse ==
    phase = "ok" =>
        (Ratelimit(lastResponse).threw <=> (\A h \in DOMAIN net : ~Answered(net[h])))

C12_Witness ==
    /\ \E h \in DOMAIN net : net[h].state = "failed"
    /\ \A h \in DOMAIN net : ~Answered(net[h])
    /\ InFlight = {}
    /\ Ratelimit(lastResponse).threw

-----------------------------------------------------------------------------
(* Token use claims, checked under Spec *)

\* request() called by the user while a token is held makes one fetch call,
\* its own, with that token, and starts nothing else.
C13_CallStep ==
    \A r \in NewFrames :
        (frames'[r].fn = "request" /\ frames'[r].caller = "user"
            /\ ~Falsy(options.accessToken))
        => /\ NewFrames = {r}
           /\ Cardinality(NewCalls) = 1
           /\ \A n \in NewCalls :
                /\ net'[n].frame = r
                /\ n \notin Exchanges(frames', net')
                /\ net'[n].url = options.baseUrl \o frames'[r].url
                /\ net'[n].init.headers =
                      [Authorization |-> "OAuth " \o options.accessToken]
           /\ options' = options

\* The steps that answer and settle the fetch call of a request() of the
\* user start no call and leave the options as they are.
C13_SettleStep ==
    \A h \in DOMAIN net :
        (frames[net[h].frame].caller = "user" /\ net'[h] # net[h])
        => /\ NewCalls = {} /\ NewFrames = {}
           /\ options' = options

\* C13: while a non-empty access token is held, request() to any path issues
\* no token exchange: it dispatches its own call only, with the held token,
\* and neither the call nor its completion changes the stored token.
C13_HeldTokenNoRefresh == [][C13_CallStep /\ C13_SettleStep]_vars

\* A request() made while tok0 was held has settled: one fetch call in all,
\* no exchange, tok0 still held.
C13_Witness ==
    /\ Cardinality(OuterCalls) = 1 /\ InFlight = {}
    /\ \E r \in OuterCalls :
        /\ EndpointRequest(frames[r])
        /\ Len(frames) = 1 /\ Len(net) = 1
        /\ net[1].init.headers = [Authorization |-> "OAuth tok0"]
        /\ net[1].state = "parsed"
    /\ Exchanges(frames, net) = {}
    /\ options.accessToken = "tok0"

-----------------------------------------------------------------------------
(* Logging claims, checked under Spec *)

\* sub occurs in str.
Contains(str, sub) ==
    \E k \in 1..(Len(str) - Len(sub) + 1) : SubSeq(str, k, k + Len(sub) - 1) = sub

\* Every access token the client was configured with or was sent.
AccessTokens(S) ==
    ({S.options.accessToken} \ {Null, ""})
        \cup {S.net[h].body.access_token :
                h \in {c \in DOMAIN S.net : ReturnedToken(S.net[c])}}

\* The strings of a console entry: its message and the members of the
\* objects given as its arguments.
EntryStrings(entry) ==
    {entry.msg} \cup
        UNION {{entry.args[a][key] : key \in DOMAIN entry.args[a]} :
                  a \in DOMAIN entry.args}

NewEntries == {console'[k] : k \in (Len(console) + 1)..Len(console')}

\* The placeholder logged for a token.
RedactedToken(token) == "String[" \o ToString(Len(token)) \o "]"

\* No entry written by a step holds an access token known before or after it.
C14_NoTokenLogged ==
    \A entry \in NewEntries :
        \A str \in EntryStrings(entry) :
            \A token \in AccessTokens(Cur) \cup AccessTokens(Cur)' :
                ~Contains(str, token)

\* An exchange that returns a token is confirmed by one entry holding the
\* body with the token replaced by its length; the body the exchange was
\* fulfilled with and the token that is stored are as the server sent them.
C14_ConfirmationRedacted ==
    \A x \in Exchanges(frames, net) :
        (~Done(net[x]) /\ ReturnedToken(net'[x]))
        => LET body == net'[x].body
           IN /\ {entry \in NewEntries : entry.level = "info"} =
                    {ConsoleEntry("info", "Refresh of tokens was successful: %o",
                        <<[body EXCEPT !.access_token =
                              RedactedToken(IssuedToken(x))]>>)}
              /\ body.access_token = IssuedToken(x)
              /\ frames'[net[x].frame].result = Fulfilled(FeedlyResponse(net'[x].response, body))
              /\ options'.accessToken = IssuedToken(x)

\* C14: no log entry of the client holds the access token itself: the entry
\* that confirms a refresh holds a copy of the response body whose
\* access_token is a placeholder giving the length of the token only, and
\* the body itself is left as it was received.
C14_TokenNeverLogged ==
    [][C14_NoTokenLogged /\ C14_ConfirmationRedacted]_vars

\* A refresh has been confirmed in the log and its token is stored.
C14_Witness ==
    \E x \in Exchanges(frames, net) :
        /\ ReturnedToken(net[x])
        /\ options.accessToken = net[x].body.access_token
        /\ \E k \in DOMAIN console :
              /\ console[k].level = "info"
              /\ console[k].args[1].access_token = RedactedToken(options.accessToken)
              /\ console[k].args[1].plan = net[x].body.plan

-----------------------------------------------------------------------------
(* Retry claims, checked under Spec *)

\* The refreshAuthToken() calls that are over.
SettledRefreshes ==
    {f \in DOMAIN frames :
        frames[f].fn = "refreshAuthToken" /\ frames[f].pc = "settled"}

\* A request() to a path other than the token path, made when a refresh has
\* failed and no token is held, starts a refresh with an exchange of its own.
C15_RetryStep ==
    \A r \in NewFrames :
        (EndpointRequest(frames'[r]) /\ frames'[r].caller = "user"
            /\ Falsy(options.accessToken) /\ SettledRefreshes # {})
        => /\ frames'[r].pc = "await_refresh"
           /\ \E f \in NewFrames :
                 frames'[f].fn = "refreshAuthToken" /\ frames'[f].parent = r
           /\ Cardinality(NewCalls) = 1
           /\ NewCalls = ExchangesOf(frames', net', r)
           /\ NewCalls \cap DOMAIN net = {}

\* Once a token is held one stays held, and a request() made then starts no
\* refresh.
C15_HeldStep ==
    (phase = "ok" /\ ~Falsy(options.accessToken))
    => /\ ~Falsy(options'.accessToken)
       /\ \A r \in NewFrames :
             frames'[r].fn = "request" /\ frames'[r].caller = "user"
             => /\ frames'[r].pc # "await_refresh"
                /\ \A f \in NewFrames : frames'[f].fn # "refreshAuthToken"

\* C15: after a refresh that failed with no access token held, each later
\* request() to a non-token path finds no token and issues an exchange of
\* its own, call after call, until a refresh stores a token; from then on
\* request() triggers no refresh.
C15_RefreshRetriedOnEachCall == [][C15_RetryStep /\ C15_HeldStep]_vars

\* Two request() calls one after the other with no token to start with: the
\* exchange of the first failed, the second made its own.
C15_Witness ==
    \E r1, r2 \in OuterCalls :
        /\ r1 < r2
        /\ EndpointRequest(frames[r1]) /\ EndpointRequest(frames[r2])
        /\ \E x1 \in ExchangesOf(frames, net, r1), x2 \in ExchangesOf(frames, net, r2) :
              /\ x1 < x2
              /\ Done(net[x1]) /\ ~ReturnedToken(net[x1])
              /\ \A h \in OwnCalls(frames, net, r1) : h < x2
              /\ \E h \in OwnCalls(frames, net, r1) :
                    net[h].init.headers = [Authorization |-> "OAuth " \o Str(Null)]

-----------------------------------------------------------------------------
(* Termination claims, checked under SpecFair *)

\* Some fetch call or body parse settles.
Completion ==
    \/ \E h \in DOMAIN net, status \in Statuses : FetchFulfilled(h, status)
    \/ \E h \in DOMAIN net : FetchRejected(h)
    \/ \E h \in DOMAIN net : \E body \in Bodies(h) : JsonFulfilled(h, body)
    \/ \E h \in DOMAIN net : JsonRejected(h)

\* The user has awaited every call made so far; the refresh the constructor
\* starts is not awaitable and may still be under way.
UserIdle == \A i \in InFlight : frames[i].caller = "constructor"

\* The user calls request(url, opts) and awaits it.
AwaitedRequest(url, opts) == UserIdle /\ CallRequest(url, opts)

\* The user calls refreshAuthToken() and awaits it.
AwaitedRefreshAuthToken == UserIdle /\ CallRefreshAuthToken

\* The instance called by a user who awaits each call.
NextFair ==
    \/ \E o \in RunConfigs : Construct(o)
    \/ \E url \in Paths, opts \in CallerOptions : AwaitedRequest(url, opts)
    \/ AwaitedRefreshAuthToken
    \/ \E h \in DOMAIN net, status \in Statuses : FetchFulfilled(h, status)
    \/ \E h \in DOMAIN net : FetchRejected(h)
    \/ \E h \in DOMAIN net : \E body \in Bodies(h) : JsonFulfilled(h, body)
    \/ \E h \in DOMAIN net : JsonRejected(h)

\* The same, with every fetch call and body parse settling in the end.
SpecFair == Init /\ [][NextFair]_vars /\ WF_vars(Completion)

\* The most activations MaxCalls calls can make: request(), the
\* refreshAuthToken() it awaits and the request() of that.
MaxFrames == 3 * MaxCalls

\* All fetch calls made on behalf of call i, its own and those below it.
RECURSIVE CallsBelow(_, _, _)
CallsBelow(F, N, i) ==
    OwnCalls(F, N, i) \cup
        UNION {CallsBelow(F, N, j) : j \in {k \in DOMAIN F : F[k].parent = i}}

\* The request() of a refreshAuthToken() awaits no refresh, and a call of
\* the user makes two fetch calls at most: an exchange for a request() that
\* refreshes, then the call proper, and one exchange for a refreshAuthToken().
C16_NoNestedRefresh ==
    /\ \A r \in DOMAIN frames :
          frames[r].caller = "refreshAuthToken" =>
              /\ frames[r].pc # "await_refresh"
              /\ \A f \in DOMAIN frames : frames[f].parent # r
    /\ \A i \in OuterCalls :
          /\ CallsBelow(frames, net, i) =
                OwnCalls(frames, net, i) \cup ExchangesOf(frames, net, i)
          /\ Cardinality(ExchangesOf(frames, net, i)) <= 1
          /\ Cardinality(OwnCalls(frames, net, i)) <= 1
          /\ frames[i].fn = "refreshAuthToken" => OwnCalls(frames, net, i) = {}

\* Every call of request() or refreshAuthToken() is settled in the end, and
\* is fulfilled: nothing is surfaced as a rejection.
C16_EveryCallSettles ==
    \A i \in 1..MaxFrames :
        (i \in DOMAIN frames)
            ~> /\ i \in DOMAIN frames /\ frames[i].pc = "settled"
               /\ frames[i].result.state = "fulfilled"

\* C16: if every fetch call and body parse settles in the end, so does every
\* request() and refreshAuthToken(); the request() of a refreshAuthToken()
\* never refreshes, even with no token held, so that a request() makes at
\* most two fetch calls: one exchange, then its own.
C16_CallsTerminate == []C16_NoNestedRefresh /\ C16_EveryCallSettles

\* A request() that refreshed is settled after two fetch calls, with no
\* token held when its exchange went out.
C16_Witness ==
    \E r \in OuterCalls :
        /\ EndpointRequest(frames[r]) /\ frames[r].pc = "settled"
        /\ Cardinality(CallsBelow(frames, net, r)) = 2
        /\ Cardinality(ExchangesOf(frames, net, r)) = 1
        /\ \E f \in DOMAIN frames :
              /\ frames[f].fn = "refreshAuthToken" /\ frames[f].parent = r
              /\ frames[f].pc = "settled"

-----------------------------------------------------------------------------
(* Token exchange claims, checked under Spec *)

\* C17: every token exchange is a POST to /v3/auth/token with the stored
\* refresh token in its body and without an Authorization header, whether a
\* request() started it for want of a token or refreshAuthToken() was called
\* with a token held.
C17_ExchangeShape ==
    \A x \in Exchanges(frames, net) :
        /\ net[x].url = options.baseUrl \o TokenPath
        /\ HasKey(net[x].init, "method") /\ net[x].init.method = "POST"
        /\ ~HasKey(net[x].init.headers, "Authorization")
        /\ net[x].init.headers = EmptyObject
        /\ Contains(net[x].init.body,
                    "\"refresh_token\":\"" \o options.refreshToken \o "\"")
        /\ net[x].init.body =
              JsonStringify(<< <<"refresh_token", options.refreshToken>>,
                               <<"client_id", "feedlydev">>,
                               <<"client_secret", "feedlydev">>,
                               <<"grant_type", "refresh_token">> >>)

\* refreshAuthToken() called by the user on an instance built with tok0: the
\* exchange is on the wire and tok0 is still held.
C17_Witness ==
    /\ phase = "ok" /\ options.accessToken = "tok0"
    /\ Len(net) = 1 /\ net[1].state = "pending"
    /\ Exchanges(frames, net) = {1}
    /\ Len(frames) = 2 /\ frames[1].fn = "refreshAuthToken"
    /\ frames[1].caller = "user"
    /\ net[1].init.headers = EmptyObject

-----------------------------------------------------------------------------
(* Last response claims, checked under Spec *)

\* The fetch calls answered in this step.
NewlyAnswered == {h \in DOMAIN net : net[h].state = "pending" /\ Answered(net'[h])}

\* lastResponse is null as long as no call was answered, and the response of
\* an answered call from then on.
C18_RecordedResponse ==
    phase = "ok" =>
        IF \A h \in DOMAIN net : ~Answered(net[h])
        THEN lastResponse = NullResponse
        ELSE /\ lastResponse # NullResponse
             /\ \E h \in DOMAIN net : Answered(net[h]) /\ lastResponse = net[h].response

\* A response is recorded in the step it arrives in, its body not yet read;
\* every other step, a failing fetch included, leaves lastResponse alone.
C18_RecordStep ==
    phase = "ok" =>
        /\ \A h \in NewlyAnswered :
              /\ lastResponse' = net'[h].response
              /\ net'[h].state = "response"
              /\ lastResponse'.id = h
        /\ NewlyAnswered = {} => lastResponse' = lastResponse
        /\ lastResponse # NullResponse => lastResponse' # NullResponse

\* C18: lastResponse is absent or is the response received last: it is
\* overwritten the moment a response arrives, that of a token exchange or of
\* a call whose body will not parse included, is left as it is by a call
\* that fails before a response, and is never absent again once set.
C18_LastResponseIsLatest == []C18_RecordedResponse /\ [][C18_RecordStep]_vars

\* The response of an exchange whose body did not parse is lastResponse,
\* with a later call on the wire.
C18_Witness ==
    \E x \in Exchanges(frames, net) :
        /\ net[x].state = "unparsable"
        /\ lastResponse = net[x].response
        /\ \E h \in DOMAIN net : h > x /\ net[h].state = "pending"

-----------------------------------------------------------------------------
(* Frame claims, checked under Spec *)

\* The step is the success step of a refreshAuthToken(): its exchange
\* yields a body with an access_token, the confirmation is logged, the
\* refreshAuthToken() is fulfilled.
RefreshSucceeds(x) ==
    /\ x \in Exchanges(frames, net)
    /\ net[x].state = "response" /\ ReturnedToken(net'[x])
    /\ \E entry \in NewEntries : entry.level = "info"
    /\ LET f == frames[net[x].frame].parent
       IN /\ frames[f].fn = "refreshAuthToken"
          /\ frames[f].pc # "settled" /\ frames'[f].pc = "settled"

\* C19: once the instance is built, baseUrl and refreshToken stay as they
\* are whatever is called, and accessToken changes in the success step of a
\* refreshAuthToken() only, to the token received; request(), the parsing of
\* a body and every failure leave the three alone.
C19_OptionsFrame ==
    [][phase = "ok" =>
          /\ options'.baseUrl = options.baseUrl
          /\ options'.refreshToken = options.refreshToken
          /\ DOMAIN options' = DOMAIN options
          /\ options'.accessToken # options.accessToken
                => \E x \in DOMAIN net :
                      /\ RefreshSucceeds(x)
                      /\ options'.accessToken = net'[x].body.access_token
          /\ (\A x \in DOMAIN net : ~RefreshSucceeds(x)) => options' = options]_vars

\* The instance was built with tok0 and now holds the token of an exchange,
\* after an exchange that failed; baseUrl and refreshToken are as built.
C19_Witness ==
    /\ phase = "ok"
    /\ HasKey(ctorArg, "accessToken") /\ ctorArg.accessToken = "tok0"
    /\ options.refreshToken = ctorArg.refreshToken
    /\ \E x, y \in Exchanges(frames, net) :
          /\ x # y
          /\ ReturnedToken(net[x]) /\ options.accessToken = net[x].body.access_token
          /\ Done(net[y]) /\ ~ReturnedToken(net[y])

-----------------------------------------------------------------------------
(* Dispatch claims, checked under Spec *)

\* A request() to a path other than the token path has no fetch call of its
\* own while it awaits its refresh, and one, to its own path, from then on.
C20_OneOwnCall ==
    \A r \in DOMAIN frames :
        EndpointRequest(frames[r]) =>
            IF frames[r].pc = "await_refresh"
            THEN OwnCalls(frames, net, r) = {}
            ELSE /\ Cardinality(OwnCalls(frames, net, r)) = 1
                 /\ \A h \in OwnCalls(frames, net, r) :
                       net[h].url = options.baseUrl \o frames[r].url

\* When the refresh it awaits is over, however it ended, the request() makes
\* its fetch call, with the token held at that moment - null when the
\* refresh failed and none was held.
C20_ResumeStep ==
    \A r \in DOMAIN frames :
        (frames[r].pc = "await_refresh" /\ frames'[r].pc # "await_refresh")
        => /\ frames'[r].pc = "await_fetch"
           /\ \E n \in NewCalls :
                /\ NewCalls = {n}
                /\ net'[n].frame = r
                /\ net'[n].state = "pending"
                /\ net'[n].init.headers =
                      [Authorization |-> "OAuth " \o Str(options'.accessToken)]
                /\ (\A x \in ExchangesOf(frames', net', r) : ~ReturnedToken(net'[x]))
                      => /\ options'.accessToken = options.accessToken
                         /\ Falsy(options.accessToken)
                              => net'[n].init.headers.Authorization = "OAuth null"

\* C20: a request() to a non-token path dispatches one fetch call to its own
\* path, no more and no fewer, whether the refresh it awaited succeeded or
\* not: after a failed refresh the call goes out all the same, its
\* Authorization built from the token that is still null.
C20_EndpointCallAlwaysSent == []C20_OneOwnCall /\ [][C20_ResumeStep]_vars

\* The exchange of a request() failed before a response; its own call went
\* out with OAuth null and was answered.
C20_Witness ==
    \E r \in OuterCalls :
        /\ EndpointRequest(frames[r]) /\ frames[r].pc = "settled"
        /\ \E x \in ExchangesOf(frames, net, r) : net[x].state = "failed"
        /\ \E h \in OwnCalls(frames, net, r) :
              /\ net[h].init.headers = [Authorization |-> "OAuth null"]
              /\ net[h].state = "parsed"
        /\ Falsy(options.accessToken)

====
